---- MODULE Spec2Model ----
\* A model of the Places dashboard (src/apple_places/app.py): one Streamlit
\* script that is re-run from top to bottom on every user interaction.
\*
\* Numbers.  Currency amounts and budgets are whole dollars, execution times
\* are whole milliseconds, and every quotient the script computes
\* (percentage_spend, success_rate, the progress ratios) is kept as an exact
\* fraction [num, den] with den > 0, compared by cross-multiplication.
\*
\* Text.  A dbt unique_id is a sequence of one-character strings, so that
\* str.split('.') is computed rather than assumed.
EXTENDS Integers, Sequences, FiniteSets, TLC

VARIABLES
    db,                    \* rows of main.fct_project_spend in the DuckDB file
    runFile,               \* target/run_results.json on disk
    manifestFile,          \* target/manifest.json on disk
    cache,                 \* st.cache_data entry of load_data()
    firstRead,             \* history: the first run metadata this process parsed
    selected_campus,       \* widget state of the campus selectbox
    reliability_threshold, \* widget state of the threshold slider
    pc,                    \* position of the current script run
    freshness,             \* sidebar "Data Freshness" caption
    df,                    \* the dataframe of the current run
    tab1,                  \* "Places Operations" panel
    tab2,                  \* "DBT Pipeline Health" panel
    tab3,                  \* "Data Dictionary" panel
    footer                 \* whether the footer has been emitted

vars == <<db, runFile, manifestFile, cache, firstRead, selected_campus,
          reliability_threshold, pc, freshness, df, tab1, tab2, tab3, footer>>

\* ------------------------------------------------------------------ bounds
MaxKpiRecords == 3
MaxRiskRecords == 3
MaxResults == 2

\* ------------------------------------------------- slider (app.py line 141)
SliderMin == 0
SliderMax == 100
SliderDefault == 90

\* ----------------------------------------------------------------- values
None == "None"

\* A file on disk: absent, present but not well-formed JSON, or a JSON object.
\* A JSON object is a function from the keys it has to their values.
EmptyObject == <<>>
MissingFile == [kind |-> "missing", json |-> EmptyObject]
MalformedFile == [kind |-> "malformed", json |-> EmptyObject]
JsonFile(obj) == [kind |-> "json", json |-> obj]

\* dict.get(key, default)
Get(obj, key, default) == IF key \in DOMAIN obj THEN obj[key] ELSE default

Rat(n, d) == [num |-> n, den |-> d]
RatEq(a, b) == a.num * b.den = b.num * a.den
RatLe(a, b) == a.num * b.den <= b.num * a.den

RECURSIVE SumSeq(_)
SumSeq(s) == IF s = <<>> THEN 0 ELSE Head(s) + SumSeq(Tail(s))

Range(s) == {s[i] : i \in 1..Len(s)}
SeqsUpTo(S, n) == UNION {[1..k -> S] : k \in 0..n}

\* ---------------------------------------------------- dataframe primitives
\* DataFrame.drop_duplicates(): keep the first occurrence of every row.
RECURSIVE DropDuplicates(_)
DropDuplicates(s) ==
    IF s = <<>> THEN <<>>
    ELSE LET init == DropDuplicates(SubSeq(s, 1, Len(s) - 1))
             last == s[Len(s)]
         IN  IF last \in Range(init) THEN init ELSE Append(init, last)

\* DataFrame.sort_values: every ordering of the rows that is ascending in
\* key[row]; the default sort is not stable, so rows with equal keys come in
\* any order.
SortValues(s, key) ==
    LET n == Len(s)
        perms == {p \in [1..n -> 1..n] : \A i, j \in 1..n : i # j => p[i] # p[j]}
    IN  {[i \in 1..n |-> s[p[i]]] :
            p \in {q \in perms : \A i, j \in 1..n :
                                    i < j => key[s[q[i]]] <= key[s[q[j]]]}}

\* df.groupby(col)['amount'].sum(): one total per value of the column.
GroupSum(s, col) ==
    [k \in {r[col] : r \in Range(s)} |->
        SumSeq([i \in 1..Len(s) |-> IF s[i][col] = k THEN s[i].amount ELSE 0])]

\* ----------------------------------------------------------- tab 1: KPIs
ProjectBudgetsNoDedup(d) ==
    [i \in 1..Len(d) |-> [project_name |-> d[i].project_name,
                          budget_allocated |-> d[i].budget_allocated]]

ProjectBudgets(d) ==
    DropDuplicates([i \in 1..Len(d) |->
        [project_name |-> d[i].project_name,
         budget_allocated |-> d[i].budget_allocated]])

TotalBudget(d) ==
    LET pb == ProjectBudgets(d)
    IN  SumSeq([i \in 1..Len(pb) |-> pb[i].budget_allocated])

TotalSpend(d) == SumSeq([i \in 1..Len(d) |-> d[i].amount])

PercentageSpendUnguarded(tb, ts) == Rat(100 * ts, tb)

PercentageSpend(tb, ts) == IF tb > 0 THEN Rat(100 * ts, tb) ELSE Rat(0, 1)

ProgressUncapped(p) == Rat(p.num, 100 * p.den)

\* min(percentage_spend / 100, 1.0)
Progress(p) ==
    IF RatLe(Rat(p.num, 100 * p.den), Rat(1, 1)) THEN Rat(p.num, 100 * p.den)
    ELSE Rat(1, 1)

\* ------------------------------------------------- tab 1: campus drill-down
Campuses(d) == DropDuplicates([i \in 1..Len(d) |-> d[i].campus])

\* st.selectbox: the stored choice if it is still an option, else the first
\* option, else None.
SelectBox(options, stored) ==
    IF stored \in Range(options) THEN stored
    ELSE IF options = <<>> THEN None ELSE options[1]

IsCampus(r, campus) == r.campus = campus

FilteredDf(d, campus) == SelectSeq(d, LAMBDA r : IsCampus(r, campus))

VendorRowsNoDedup(fd) ==
    [i \in 1..Len(fd) |-> [vendor_name |-> fd[i].vendor_name,
                           reliability_score |-> fd[i].reliability_score]]

RiskDf(fd) ==
    DropDuplicates([i \in 1..Len(fd) |->
        [vendor_name |-> fd[i].vendor_name,
         reliability_score |-> fd[i].reliability_score]])

\* The sort key of sort_values('reliability_score').
ScoreOf(rows) == [r \in Range(rows) |-> r.reliability_score]

RiskyVendorsInclusive(fd, threshold) ==
    LET risky == SelectSeq(RiskDf(fd), LAMBDA r : r.reliability_score <= threshold)
    IN  SortValues(risky, ScoreOf(risky))

\* The set of tables the script can show: one per admissible ordering of ties.
RiskyVendors(fd, threshold) ==
    LET risky == SelectSeq(RiskDf(fd), LAMBDA r : r.reliability_score < threshold)
    IN  SortValues(risky, ScoreOf(risky))

NoTab1 ==
    [state |-> "none", total_budget |-> 0, total_spend |-> 0,
     total_remaining |-> 0, percentage_spend |-> Rat(0, 1),
     progress |-> Rat(0, 1), campuses |-> <<>>, filtered_df |-> <<>>,
     spend_by_project |-> <<>>, trend_df |-> <<>>, category_df |-> <<>>,
     threshold |-> SliderDefault, risky_vendors |-> <<>>]

Tab1View(d, campus, threshold, rv) ==
    LET tb == TotalBudget(d)
        ts == TotalSpend(d)
        ps == PercentageSpend(tb, ts)
        fd == FilteredDf(d, campus)
    IN  [state |-> "rendered", total_budget |-> tb, total_spend |-> ts,
         total_remaining |-> tb - ts, percentage_spend |-> ps,
         progress |-> Progress(ps), campuses |-> Campuses(d),
         filtered_df |-> fd,
         spend_by_project |-> GroupSum(fd, "project_name"),
         trend_df |-> GroupSum(fd, "expense_date"),
         category_df |-> GroupSum(fd, "category"),
         threshold |-> threshold, risky_vendors |-> rv]

\* ------------------------------------------------------ tab 2: telemetry
\* str.split('.')
RECURSIVE Split(_)
Split(s) ==
    IF \E i \in 1..Len(s) : s[i] = "."
    THEN LET i == CHOOSE k \in 1..Len(s) :
                      s[k] = "." /\ \A j \in 1..(k - 1) : s[j] # "."
         IN  <<SubSeq(s, 1, i - 1)>> \o Split(SubSeq(s, i + 1, Len(s)))
    ELSE <<s>>

\* str.upper() on the statuses dbt writes and on the default 'unknown'
Upper(status) ==
    CASE status = "success" -> "SUCCESS"
      [] status = "pass" -> "PASS"
      [] status = "fail" -> "FAIL"
      [] status = "error" -> "ERROR"
      [] status = "skipped" -> "SKIPPED"
      [] status = "unknown" -> "UNKNOWN"

\* round(exec_time, 2): milliseconds to hundredths of a second, to nearest.
\* The execution times of the model are never a tie (5 ms past a hundredth).
Round2(ms) == (ms + 5) \div 10

ModelKind == <<"m", "o", "d", "e", "l">>
TestKind == <<"t", "e", "s", "t">>

Results(file) == Get(file.json, "results", <<>>)

IsSuccessful(r) == "status" \in DOMAIN r /\ r["status"] \in {"success", "pass"}

SuccessfulNodes(results) ==
    SumSeq([i \in 1..Len(results) |-> IF IsSuccessful(results[i]) THEN 1 ELSE 0])

SuccessRateUnguarded(results) == Rat(SuccessfulNodes(results) * 100, Len(results))

SuccessRate(results) ==
    IF Len(results) > 0 THEN Rat(SuccessfulNodes(results) * 100, Len(results))
    ELSE Rat(0, 1)

TotalTime(results) ==
    SumSeq([i \in 1..Len(results) |-> Get(results[i], "execution_time", 0)])

NodeType(r) == Split(Get(r, "unique_id", <<>>))[1]

NodeRow(r) ==
    LET parts == Split(Get(r, "unique_id", <<>>))
    IN  [name |-> parts[Len(parts)],
         status |-> Upper(Get(r, "status", "unknown")),
         time |-> Round2(Get(r, "execution_time", 0))]

RowsOfPrefix(results, kind) ==
    LET sel == SelectSeq(results, LAMBDA r :
                   LET id == Get(r, "unique_id", <<>>)
                   IN  Len(id) >= Len(kind) /\ SubSeq(id, 1, Len(kind)) = kind)
    IN  [i \in 1..Len(sel) |-> NodeRow(sel[i])]

\* The rows appended to models_data (kind "model") or tests_data (kind "test").
RowsOfKind(results, kind) ==
    LET sel == SelectSeq(results, LAMBDA r : NodeType(r) = kind)
    IN  [i \in 1..Len(sel) |-> NodeRow(sel[i])]

\* The sort key of sort_values('Time (s)', ascending=False).
NegTime(rows) == [r \in Range(rows) |-> 0 - r.time]

NoTab2 ==
    [state |-> "none", error |-> "", total_nodes |-> 0, successful_nodes |-> 0,
     success_rate |-> Rat(0, 1), total_time |-> 0, progress |-> Rat(0, 1),
     models_data |-> <<>>, tests_data |-> <<>>, models_df |-> <<>>,
     all_df |-> <<>>]

\* What the body of the try block leaves in the panel, for each admissible
\* ordering of the bottleneck chart.
Tab2Views(file) ==
    IF file.kind = "missing"
    THEN {[NoTab2 EXCEPT !.state = "warning", !.error = "FileNotFoundError"]}
    ELSE IF file.kind = "malformed"
    THEN {[NoTab2 EXCEPT !.state = "exception", !.error = "JSONDecodeError"]}
    ELSE LET results == Results(file)
             models == RowsOfKind(results, ModelKind)
             tests == RowsOfKind(results, TestKind)
         IN  {[state |-> "rendered", error |-> "",
               total_nodes |-> Len(results),
               successful_nodes |-> SuccessfulNodes(results),
               success_rate |-> SuccessRate(results),
               total_time |-> TotalTime(results),
               progress |-> Progress(SuccessRate(results)),
               models_data |-> models, tests_data |-> tests,
               models_df |-> sorted, all_df |-> models \o tests] :
                 sorted \in SortValues(models, NegTime(models))}

\* ------------------------------------------------ tab 3: data dictionary
ColList(columns) ==
    LET documented == SelectSeq(columns, LAMBDA c : Get(c, "description", "") # "")
    IN  [i \in 1..Len(documented) |->
            [column_name |-> documented[i]["name"],
             description |-> documented[i]["description"]]]

NoTab3 == [state |-> "none", error |-> "", models |-> <<>>]

\* The body of the try block: one entry per node whose resource_type is model.
DictionaryModels(file) ==
    LET nodes == Get(file.json, "nodes", <<>>)
        models == SelectSeq(nodes, LAMBDA n : Get(n, "resource_type", "") = "model")
    IN  [i \in 1..Len(models) |->
            [model_name |-> Get(models[i], "name", "Unknown"),
             model_desc |-> Get(models[i], "description", "No description provided."),
             col_list |-> ColList(Get(models[i], "columns", <<>>))]]

Tab3ViewNoCatch(file) ==
    IF file.kind = "missing"
    THEN [NoTab3 EXCEPT !.state = "exception", !.error = "FileNotFoundError"]
    ELSE IF file.kind = "malformed"
    THEN [NoTab3 EXCEPT !.state = "exception", !.error = "JSONDecodeError"]
    ELSE [state |-> "rendered", error |-> "", models |-> DictionaryModels(file)]

Tab3View(file) ==
    IF file.kind = "missing"
    THEN [NoTab3 EXCEPT !.state = "warning", !.error = "FileNotFoundError"]
    ELSE IF file.kind = "malformed"
    THEN [NoTab3 EXCEPT !.state = "exception", !.error = "JSONDecodeError"]
    ELSE [state |-> "rendered", error |-> "", models |-> DictionaryModels(file)]

\* ----------------------------------------------------------------- inputs
Row(project, campus, budget, vendor, score, date, amount, category) ==
    [project_name |-> project, campus |-> campus, budget_allocated |-> budget,
     vendor_name |-> vendor, reliability_score |-> score, expense_date |-> date,
     amount |-> amount, category |-> category]

Projects == {"A", "B"}
Budgets == {0, 100}
Amounts == {20, 40, 120}
CampusNames == {"X", "Y"}
Vendors == {"V1", "V2"}
Scores == {50, 90}
Thresholds == {SliderMin, SliderDefault, SliderMax}

\* Spend records for the budget KPIs.  budget_allocated is an attribute of the
\* project (the data model's invariant): every row of a project carries the
\* project's one budget.  Amounts and budgets are not negative.
KpiDatasets ==
    {[i \in DOMAIN f |-> Row(f[i][1], "X", bud[f[i][1]], "V1", 90, 1, f[i][2], "Labor")] :
        bud \in [Projects -> Budgets],
        f \in SeqsUpTo(Projects \X Amounts, MaxKpiRecords)}

\* Spend records for the vendor risk table: any vendor, score and campus per row.
RiskDatasets ==
    {[i \in DOMAIN f |-> Row("A", f[i][1], 100, f[i][2], f[i][3], 1, 20, "Labor")] :
        f \in SeqsUpTo(CampusNames \X Vendors \X Scores, MaxRiskRecords)}

\* The warehouse contents a session sees: empty, one row, rows of two campuses.
SessionDatasets ==
    {<<>>,
     <<Row("A", "X", 100, "V1", 50, 1, 40, "Labor")>>,
     <<Row("A", "X", 100, "V1", 50, 1, 40, "Labor"),
       Row("B", "Y", 100, "V2", 90, 2, 120, "Permits")>>}

Chars(kind, name) == kind \o <<".", "p", ".">> \o name

UniqueIds ==
    {Chars(ModelKind, <<"m", "1">>),                     \* model.p.m1
     Chars(TestKind, <<"t", "1">>),                      \* test.p.t1
     Chars(<<"s", "e", "e", "d">>, <<"s", "1">>),        \* seed.p.s1
     Chars(ModelKind \o <<"s">>, <<"x">>)}               \* models.p.x

Statuses == {"success", "pass", "fail"}
ExecutionTimes == {200, 1236, 1500}

RunResult(id, status, time) ==
    [unique_id |-> id, status |-> status, execution_time |-> time]

\* One element of the results array: all three keys, or none of them.
RunResults ==
    {RunResult(id, st, t) : id \in UniqueIds, st \in Statuses, t \in ExecutionTimes}
        \cup {EmptyObject}

RunFiles ==
    {MissingFile, MalformedFile, JsonFile(EmptyObject)}
        \cup {JsonFile([results |-> rs]) : rs \in SeqsUpTo(RunResults, MaxResults)}

SessionRunFiles ==
    {MissingFile, MalformedFile,
     JsonFile([results |-> <<RunResult(Chars(ModelKind, <<"m", "1">>), "success", 1500),
                             RunResult(Chars(TestKind, <<"t", "1">>), "fail", 200)>>]),
     JsonFile([results |-> <<RunResult(Chars(TestKind, <<"t", "1">>), "pass", 200)>>])}

DocumentedModel ==
    [resource_type |-> "model", name |-> "fct_project_spend",
     description |-> "Project spend mart",
     columns |-> <<[name |-> "amount", description |-> "Expense amount"],
                   [name |-> "campus", description |-> ""]>>]

BareModel == [resource_type |-> "model"]

TestNode == [resource_type |-> "test", name |-> "not_null_amount"]

ManifestFiles ==
    {MissingFile, MalformedFile,
     JsonFile([nodes |-> <<DocumentedModel, TestNode, BareModel>>])}

\* ---------------------------------------------------------- initial states
NoCache == [loaded |-> FALSE, data |-> <<>>]
Unread == [read |-> FALSE, file |-> MissingFile]
NothingRead == [run |-> Unread]

\* A process has just started and the first script run begins.
FreshProcess ==
    /\ cache = NoCache
    /\ firstRead = NothingRead
    /\ selected_campus = None
    /\ reliability_threshold = SliderDefault
    /\ pc = "sidebar"
    /\ freshness = "none"
    /\ df = <<>>
    /\ tab1 = NoTab1
    /\ tab2 = NoTab2
    /\ tab3 = NoTab3
    /\ footer = FALSE

Init ==
    /\ db \in SessionDatasets
    /\ runFile \in SessionRunFiles
    /\ manifestFile \in ManifestFiles
    /\ FreshProcess

\* A run stands before tab 1 with the dataframe d loaded.
AtTab1(d) ==
    /\ db = d
    /\ cache = [loaded |-> TRUE, data |-> d]
    /\ df = d
    /\ firstRead = NothingRead
    /\ pc = "tab1"
    /\ freshness = "Unknown"
    /\ runFile = MissingFile
    /\ manifestFile = MissingFile
    /\ tab1 = NoTab1
    /\ tab2 = NoTab2
    /\ tab3 = NoTab3
    /\ footer = FALSE

InitKpi ==
    /\ \E d \in KpiDatasets : AtTab1(d)
    /\ selected_campus = None
    /\ reliability_threshold = SliderDefault

InitRisk ==
    /\ \E d \in RiskDatasets : AtTab1(d)
    /\ selected_campus \in CampusNames \cup {None}
    /\ reliability_threshold \in Thresholds

\* A run stands before tab 2, the run-metadata file being any of RunFiles.
InitPipeline ==
    /\ runFile \in RunFiles
    /\ db = <<>>
    /\ cache = [loaded |-> TRUE, data |-> <<>>]
    /\ df = <<>>
    /\ firstRead = NothingRead
    /\ selected_campus = None
    /\ reliability_threshold = SliderDefault
    /\ pc = "tab2"
    /\ freshness = IF runFile.kind = "missing" THEN "Unknown" ELSE "timestamp"
    /\ manifestFile = MissingFile
    /\ tab1 = Tab1View(<<>>, None, SliderDefault, <<>>)
    /\ tab2 = NoTab2
    /\ tab3 = NoTab3
    /\ footer = FALSE

\* ---------------------------------------------------------------- actions
\* Lines 20-39: the sidebar and its data-freshness caption.
Sidebar ==
    /\ pc = "sidebar"
    /\ freshness' = IF runFile.kind = "missing" THEN "Unknown" ELSE "timestamp"
    /\ pc' = "load"
    /\ UNCHANGED <<db, runFile, manifestFile, cache, firstRead, selected_campus,
                   reliability_threshold, df, tab1, tab2, tab3, footer>>

LoadDataUncached ==
    /\ pc = "load"
    /\ cache' = [loaded |-> TRUE, data |-> db]
    /\ df' = db
    /\ pc' = "tab1"
    /\ UNCHANGED <<db, runFile, manifestFile, firstRead, selected_campus,
                   reliability_threshold, freshness, tab1, tab2, tab3, footer>>

\* Lines 41-48: df = load_data(), which queries the database only when
\* st.cache_data holds no entry for it.
LoadData ==
    /\ pc = "load"
    /\ cache' = IF cache.loaded THEN cache ELSE [loaded |-> TRUE, data |-> db]
    /\ df' = cache'.data
    /\ pc' = "tab1"
    /\ UNCHANGED <<db, runFile, manifestFile, firstRead, selected_campus,
                   reliability_threshold, freshness, tab1, tab2, tab3, footer>>

\* Lines 56-162: the KPIs over the whole dataframe, then the drill-down of the
\* selected campus and its vendor risk table.
Tab1 ==
    /\ pc = "tab1"
    /\ LET campus == SelectBox(Campuses(df), selected_campus)
       IN  /\ selected_campus' = campus
           /\ \E rv \in RiskyVendors(FilteredDf(df, campus), reliability_threshold) :
                 tab1' = Tab1View(df, campus, reliability_threshold, rv)
    /\ pc' = "tab2"
    /\ UNCHANGED <<db, runFile, manifestFile, cache, firstRead,
                   reliability_threshold, freshness, df, tab2, tab3, footer>>

\* Lines 167-245: the telemetry panel.  The file is opened and parsed in every
\* run; only FileNotFoundError is caught, any other exception ends the run.
Tab2 ==
    /\ pc = "tab2"
    /\ firstRead' = IF firstRead.run.read \/ runFile.kind # "json" THEN firstRead
                    ELSE [firstRead EXCEPT !.run = [read |-> TRUE, file |-> runFile]]
    /\ \E view \in Tab2Views(runFile) :
          /\ tab2' = view
          /\ pc' = IF view.state = "exception" THEN "aborted" ELSE "tab3"
    /\ UNCHANGED <<db, runFile, manifestFile, cache, selected_campus,
                   reliability_threshold, freshness, df, tab1, tab3, footer>>

\* Lines 250-285: the data dictionary panel, with the same exception handling.
Tab3 ==
    /\ pc = "tab3"
    /\ tab3' = Tab3View(manifestFile)
    /\ pc' = IF tab3'.state = "exception" THEN "aborted" ELSE "footer"
    /\ UNCHANGED <<db, runFile, manifestFile, cache, firstRead, selected_campus,
                   reliability_threshold, freshness, df, tab1, tab2, footer>>

\* Lines 288-291.
Footer ==
    /\ pc = "footer"
    /\ footer' = TRUE
    /\ pc' = "idle"
    /\ UNCHANGED <<db, runFile, manifestFile, cache, firstRead, selected_campus,
                   reliability_threshold, freshness, df, tab1, tab2, tab3>>

\* A widget change re-runs the script from the top; the page is rebuilt.
Rerun ==
    /\ pc \in {"idle", "aborted"}
    /\ pc' = "sidebar"
    /\ freshness' = "none"
    /\ tab1' = NoTab1
    /\ tab2' = NoTab2
    /\ tab3' = NoTab3
    /\ footer' = FALSE
    /\ UNCHANGED <<db, runFile, manifestFile, cache, firstRead, df>>

\* Line 80: the user picks another campus of the selectbox.
SelectCampus ==
    /\ tab1.state = "rendered"
    /\ \E c \in Range(tab1.campuses) \ {selected_campus} : selected_campus' = c
    /\ UNCHANGED reliability_threshold
    /\ Rerun

\* Lines 140-142: the user moves the threshold slider.
SetThreshold ==
    /\ tab1.state = "rendered"
    /\ \E t \in Thresholds \ {reliability_threshold} : reliability_threshold' = t
    /\ UNCHANGED selected_campus
    /\ Rerun

\* The environment: dbt rewrites its artifacts, the warehouse is rebuilt.
WriteRunResults ==
    /\ \E f \in SessionRunFiles \ {runFile} : runFile' = f
    /\ UNCHANGED <<db, manifestFile, cache, firstRead, selected_campus,
                   reliability_threshold, pc, freshness, df, tab1, tab2, tab3, footer>>

WriteManifest ==
    /\ \E f \in ManifestFiles \ {manifestFile} : manifestFile' = f
    /\ UNCHANGED <<db, runFile, cache, firstRead, selected_campus,
                   reliability_threshold, pc, freshness, df, tab1, tab2, tab3, footer>>

UpdateDatabase ==
    /\ \E d \in SessionDatasets \ {db} : db' = d
    /\ UNCHANGED <<runFile, manifestFile, cache, firstRead, selected_campus,
                   reliability_threshold, pc, freshness, df, tab1, tab2, tab3, footer>>

\* The Streamlit process is restarted: the cache and the session are gone.
Restart ==
    /\ pc \in {"idle", "aborted"}
    /\ cache.loaded
    /\ cache' = NoCache
    /\ firstRead' = NothingRead
    /\ selected_campus' = None
    /\ reliability_threshold' = SliderDefault
    /\ pc' = "sidebar"
    /\ freshness' = "none"
    /\ df' = <<>>
    /\ tab1' = NoTab1
    /\ tab2' = NoTab2
    /\ tab3' = NoTab3
    /\ footer' = FALSE
    /\ UNCHANGED <<db, runFile, manifestFile>>

Next ==
    \/ Sidebar \/ LoadData \/ Tab1 \/ Tab2 \/ Tab3 \/ Footer
    \/ SelectCampus \/ SetThreshold
    \/ WriteRunResults \/ WriteManifest \/ UpdateDatabase \/ Restart

Spec == Init /\ [][Next]_vars

NextTab1 == Tab1

SpecKpi == InitKpi /\ [][NextTab1]_vars

SpecRisk == InitRisk /\ [][NextTab1]_vars

NextTab2 == Tab2

SpecPipeline == InitPipeline /\ [][NextTab2]_vars

\* ================================================================ claims
\* Helpers of the claims, written independently of the operators above.
Count(s, P(_)) == Cardinality({i \in 1..Len(s) : P(s[i])})

\* The sum of the values of a function with a finite domain.
RECURSIVE SumOver(_)
SumOver(f) ==
    IF DOMAIN f = {} THEN 0
    ELSE LET x == CHOOSE y \in DOMAIN f : TRUE
         IN  f[x] + SumOver([y \in DOMAIN f \ {x} |-> f[y]])

ProjectNames(d) == {d[i].project_name : i \in 1..Len(d)}
BudgetOfProject(d, p) ==
    CHOOSE b \in {d[i].budget_allocated : i \in {k \in 1..Len(d) : d[k].project_name = p}} : TRUE

Rendered1 == tab1.state = "rendered"
Rendered2 == tab2.state = "rendered"

\* ---- budget KPIs (SpecKpi)

\* C1: total_budget is the sum, over the distinct project names of the records,
\* of that project's budget_allocated: a project counts once however many
\* expense rows it has.
C1_BudgetOncePerProject ==
    Rendered1 =>
        tab1.total_budget =
            SumOver([p \in ProjectNames(df) |-> BudgetOfProject(df, p)])

\* C1 witness: two rows share a project with a positive budget, and a second
\* project is present.
C1_Witness ==
    /\ Rendered1
    /\ \E i, j \in 1..Len(df) :
          /\ i # j
          /\ df[i].project_name = df[j].project_name
          /\ df[i].budget_allocated > 0
    /\ Cardinality(ProjectNames(df)) = 2

ExampleRecords ==
    <<Row("A", "X", 100, "V1", 90, 1, 40, "Labor"),
      Row("A", "X", 100, "V1", 90, 1, 20, "Labor")>>

\* C7: the empty record set has total_budget 0; percentage_spend is 0 whenever
\* total_budget is 0, whatever total_spend is; otherwise it is
\* 100 * total_spend / total_budget; total_remaining is total_budget -
\* total_spend; the two-row example gives 100, 60, 40 and 60 percent.
C7_PercentGuarded ==
    Rendered1 =>
        /\ df = <<>> => tab1.total_budget = 0
        /\ tab1.percentage_spend.den > 0
        /\ tab1.total_budget = 0 => tab1.percentage_spend.num = 0
        /\ tab1.total_budget # 0 =>
              tab1.percentage_spend.num * tab1.total_budget =
                  100 * tab1.total_spend * tab1.percentage_spend.den
        /\ tab1.total_remaining = tab1.total_budget - tab1.total_spend
        /\ tab1.total_spend = SumOver([i \in 1..Len(df) |-> df[i].amount])
        /\ df = ExampleRecords =>
              /\ tab1.total_budget = 100
              /\ tab1.total_spend = 60
              /\ tab1.total_remaining = 40
              /\ RatEq(tab1.percentage_spend, Rat(60, 1))

\* C7 witness: the guard's case, a zero total budget with money spent.
C7_Witness == Rendered1 /\ tab1.total_budget = 0 /\ tab1.total_spend > 0

\* C10 as stated: the progress ratio lies in [0,1], is percentage_spend / 100
\* when spend does not exceed budget and is exactly 1 when spend exceeds budget.
C10_Original ==
    Rendered1 =>
        /\ RatLe(Rat(0, 1), tab1.progress) /\ RatLe(tab1.progress, Rat(1, 1))
        /\ tab1.total_spend <= tab1.total_budget =>
              RatEq(tab1.progress, Rat(tab1.percentage_spend.num,
                                       100 * tab1.percentage_spend.den))
        /\ tab1.total_spend > tab1.total_budget => RatEq(tab1.progress, Rat(1, 1))

\* C10 amended: the progress ratio lies in [0,1]; with a positive total budget
\* it is percentage_spend / 100 when spend does not exceed budget and exactly 1
\* when spend exceeds it; with a zero total budget it is 0 whatever was spent.
C10_ProgressClamped ==
    Rendered1 =>
        /\ tab1.progress.den > 0
        /\ RatLe(Rat(0, 1), tab1.progress) /\ RatLe(tab1.progress, Rat(1, 1))
        /\ (tab1.total_budget > 0 /\ tab1.total_spend <= tab1.total_budget) =>
              RatEq(tab1.progress, Rat(tab1.total_spend, tab1.total_budget))
        /\ (tab1.total_budget > 0 /\ tab1.total_spend > tab1.total_budget) =>
              RatEq(tab1.progress, Rat(1, 1))
        /\ tab1.total_budget = 0 => RatEq(tab1.progress, Rat(0, 1))

\* C10 witness: spend exceeds a positive budget.
C10_Witness ==
    Rendered1 /\ tab1.total_budget > 0 /\ tab1.total_spend > tab1.total_budget

\* ---- vendor risk table (SpecRisk)
RowsOfVendor(v) == {i \in 1..Len(tab1.risky_vendors) : tab1.risky_vendors[i].vendor_name = v}

CampusScores(v) ==
    {df[i].reliability_score :
        i \in {k \in 1..Len(df) : df[k].campus = selected_campus /\ df[k].vendor_name = v}}

\* C5 as stated: no vendor_name occurs in more than one row of the risk table.
C5_Original ==
    Rendered1 => \A v \in Vendors : Cardinality(RowsOfVendor(v)) <= 1

\* C5 amended: no (vendor_name, reliability_score) pair occurs in more than
\* one row of the risk table, so a vendor whose rows of the selected campus all
\* carry one score appears exactly once when that score is below the threshold
\* and not at all otherwise; a vendor with several scores has one row per
\* score below the threshold.
C5_OncePerVendorScore ==
    Rendered1 =>
        /\ \A i, j \in 1..Len(tab1.risky_vendors) :
              i # j => tab1.risky_vendors[i] # tab1.risky_vendors[j]
        /\ \A v \in Vendors :
              Cardinality(RowsOfVendor(v)) =
                  Cardinality({sc \in CampusScores(v) : sc < reliability_threshold})

\* C5 witness: a vendor has two expense rows of the selected campus with the
\* same score, below the threshold.
C5_Witness ==
    /\ Rendered1
    /\ \E i, j \in 1..Len(df) :
          /\ i # j
          /\ df[i].campus = selected_campus /\ df[j].campus = selected_campus
          /\ df[i].vendor_name = df[j].vendor_name
          /\ df[i].reliability_score = df[j].reliability_score
          /\ df[i].reliability_score < reliability_threshold

\* C6: every row of the risk table is a vendor of the selected campus with a
\* score strictly below the threshold, and the rows ascend in score.
C6_BelowThresholdAscending ==
    Rendered1 =>
        /\ \A i \in 1..Len(tab1.risky_vendors) :
              /\ tab1.risky_vendors[i].reliability_score < reliability_threshold
              /\ \E k \in 1..Len(df) :
                    /\ df[k].campus = selected_campus
                    /\ df[k].vendor_name = tab1.risky_vendors[i].vendor_name
                    /\ df[k].reliability_score = tab1.risky_vendors[i].reliability_score
        /\ \A i, j \in 1..Len(tab1.risky_vendors) :
              i < j => tab1.risky_vendors[i].reliability_score
                           <= tab1.risky_vendors[j].reliability_score

\* C6 witness: the table has rows of two scores, the selected campus has a
\* vendor at the threshold, and the other campus has a vendor below it.
C6_Witness ==
    /\ Rendered1
    /\ \E i, j \in 1..Len(tab1.risky_vendors) :
          tab1.risky_vendors[i].reliability_score
              < tab1.risky_vendors[j].reliability_score
    /\ \E k \in 1..Len(df) :
          df[k].campus # selected_campus /\ df[k].reliability_score < reliability_threshold

\* ---- telemetry (SpecPipeline)
Ids == LET rs == Results(runFile)
       IN  [i \in 1..Len(rs) |-> Get(rs[i], "unique_id", <<>>)]

StartsWith(id, kind) == Len(id) >= Len(kind) /\ SubSeq(id, 1, Len(kind)) = kind

\* The identifier's leading dot-separated segment is exactly kind.
LeadingSegmentIs(id, kind) ==
    /\ StartsWith(id, kind)
    /\ Len(id) = Len(kind) \/ id[Len(kind) + 1] = "."

\* name is what follows the last dot of id (all of id when it has no dot).
IsLastSegment(id, name) ==
    /\ \A k \in 1..Len(name) : name[k] # "."
    /\ \/ id = name
       \/ /\ Len(id) > Len(name)
          /\ SubSeq(id, Len(id) - Len(name) + 1, Len(id)) = name
          /\ id[Len(id) - Len(name)] = "."

\* C2 as stated: every result lands in exactly one of the two sets, so their
\* sizes add up to the number of results; an id starting with "model" is in
\* the model set and one starting with "test" in the test set.
C2_Original ==
    Rendered2 =>
        /\ Len(tab2.models_data) + Len(tab2.tests_data) = Len(Results(runFile))
        /\ Len(tab2.models_data) = Count(Ids, LAMBDA id : StartsWith(id, ModelKind))
        /\ Len(tab2.tests_data) = Count(Ids, LAMBDA id : StartsWith(id, TestKind))

\* C2 amended: a result is in the model set exactly when the leading segment
\* of its unique_id is "model" and in the test set exactly when it is "test",
\* once and in input order, named by the last segment; every other result
\* (another kind such as seed, a longer word such as "models", no unique_id)
\* is in neither set, so the two sizes add up to the number of model and test
\* results, which is at most the number of results.
C2_PartitionOfModelAndTest ==
    Rendered2 =>
        LET ids == Ids
            modelIds == SelectSeq(ids, LAMBDA id : LeadingSegmentIs(id, ModelKind))
            testIds == SelectSeq(ids, LAMBDA id : LeadingSegmentIs(id, TestKind))
        IN  /\ Len(tab2.models_data) = Len(modelIds)
            /\ Len(tab2.tests_data) = Len(testIds)
            /\ \A i \in 1..Len(modelIds) :
                  IsLastSegment(modelIds[i], tab2.models_data[i].name)
            /\ \A i \in 1..Len(testIds) :
                  IsLastSegment(testIds[i], tab2.tests_data[i].name)
            /\ Len(tab2.models_data) + Len(tab2.tests_data)
                  = Len(ids) - Count(ids, LAMBDA id :
                        ~LeadingSegmentIs(id, ModelKind) /\ ~LeadingSegmentIs(id, TestKind))
            /\ tab2.all_df = tab2.models_data \o tab2.tests_data

\* C2 witness: of two results, a model went to the model set and the other,
\* neither model nor test, went to neither set.
C2_Witness ==
    /\ Rendered2
    /\ Len(Results(runFile)) = 2
    /\ Len(tab2.models_data) = 1 /\ Len(tab2.tests_data) = 0

ExampleResults ==
    <<RunResult(Chars(ModelKind, <<"m", "1">>), "success", 1500),
      RunResult(Chars(TestKind, <<"t", "1">>), "fail", 200)>>

\* C8: total_nodes is the number of results, success_rate is 100 times the
\* number of results with status success or pass over total_nodes, total_time
\* is the sum of the execution times; the empty list gives 0, 0 and 0; the
\* two-result example gives 2 nodes, 50 percent and 1.7 seconds.
C8_PipelineKpis ==
    Rendered2 =>
        LET rs == Results(runFile)
            ok == {i \in 1..Len(rs) :
                      "status" \in DOMAIN rs[i] /\ rs[i]["status"] \in {"success", "pass"}}
        IN  /\ tab2.total_nodes = Len(rs)
            /\ tab2.success_rate.den > 0
            /\ tab2.total_nodes > 0 =>
                  tab2.success_rate.num * tab2.total_nodes
                      = 100 * Cardinality(ok) * tab2.success_rate.den
            /\ tab2.total_time =
                  SumOver([i \in 1..Len(rs) |->
                      IF "execution_time" \in DOMAIN rs[i] THEN rs[i]["execution_time"] ELSE 0])
            /\ rs = <<>> =>
                  /\ tab2.total_nodes = 0
                  /\ tab2.success_rate.num = 0
                  /\ tab2.total_time = 0
            /\ rs = ExampleResults =>
                  /\ tab2.total_nodes = 2
                  /\ RatEq(tab2.success_rate, Rat(50, 1))
                  /\ tab2.total_time = 1700

\* C8 witness: the telemetry of an empty results array has been computed.
C8_Witness == Rendered2 /\ Results(runFile) = <<>> /\ tab2.total_nodes = 0

\* ---- the session (Spec)
RunEnded == pc \in {"idle", "aborted"}

\* C3 as stated: a run-metadata file that is not well-formed JSON leaves a
\* warning in the telemetry panel, and the data dictionary panel and the
\* footer are still produced.
C3_MalformedIsWarned ==
    tab2.error = "JSONDecodeError" =>
        /\ tab2.state = "warning"
        /\ RunEnded => (tab3.state # "none" /\ footer)

\* C9: FileNotFoundError is never fatal.  The panel whose file is missing
\* holds a warning and nothing else, the run goes on to the next panel, and a
\* run that comes to its end has produced tab 1 from the loaded records, both
\* other panels and the footer.  (A run ends early only on a file that is
\* not well-formed JSON.)
C9_MissingFileNotFatal ==
    /\ tab2.error = "FileNotFoundError" =>
          /\ tab2 = [NoTab2 EXCEPT !.state = "warning", !.error = "FileNotFoundError"]
          /\ \/ pc \in {"tab3", "footer", "idle"}
             \/ pc = "aborted" /\ tab3.error = "JSONDecodeError"
          /\ tab1.state = "rendered" /\ tab1.total_spend = TotalSpend(df)
    /\ tab3.error = "FileNotFoundError" =>
          /\ tab3 = [NoTab3 EXCEPT !.state = "warning", !.error = "FileNotFoundError"]
          /\ pc \in {"footer", "idle"}
          /\ tab1.state = "rendered" /\ tab1.total_spend = TotalSpend(df)
          /\ tab2.state \in {"rendered", "warning"}
    /\ pc = "aborted" =>
          (tab2.error = "JSONDecodeError" \/ tab3.error = "JSONDecodeError")
    /\ pc = "idle" =>
          /\ footer
          /\ tab1.state = "rendered"
          /\ tab2.state \in {"rendered", "warning"}
          /\ tab3.state \in {"rendered", "warning"}

\* C9 witness: a finished run in which both files were missing.
C9_Witness ==
    /\ pc = "idle"
    /\ tab2.error = "FileNotFoundError"
    /\ tab3.error = "FileNotFoundError"
    /\ footer
    /\ Len(df) > 0

\* C4 as stated: the spend dataset and the run metadata are each loaded once
\* per process, so what a run shows is computed from the data as first loaded.
C4_Original ==
    /\ pc \in {"tab1", "tab2", "tab3", "footer", "idle", "aborted"} =>
          (cache.loaded /\ df = cache.data)
    /\ Rendered2 => tab2 \in Tab2Views(firstRead.run.file)

\* C4 amended: the spend dataset is loaded once per process and cached, so
\* every run computes tab 1 from the records as first loaded even if the
\* database has changed since, until the process restarts; the run-metadata
\* and manifest files are not cached: every run opens and parses them again,
\* so a change to them shows in the next run.
C4_DatasetCachedFilesReread ==
    /\ [][(cache.loaded /\ cache'.loaded) => cache' = cache]_vars
    /\ [](pc \in {"tab1", "tab2", "tab3", "footer", "idle", "aborted"} =>
              (cache.loaded /\ df = cache.data))
    /\ [](Rendered1 =>
              /\ tab1.total_spend = SumOver([i \in 1..Len(cache.data) |-> cache.data[i].amount])
              /\ tab1.campuses = Campuses(cache.data))
    /\ [][(pc = "tab2" /\ pc' # "tab2") => tab2' \in Tab2Views(runFile)]_vars
    /\ [][(pc = "tab3" /\ pc' # "tab3") => tab3' = Tab3View(manifestFile)]_vars

\* C4 witness: a finished run shows tab 1 from the cached records although the
\* database now differs, and shows the telemetry of the file as it now is, not
\* of the run metadata this process parsed first.
C4_Witness ==
    /\ pc = "idle"
    /\ Rendered1
    /\ db # cache.data
    /\ df = cache.data
    /\ Rendered2
    /\ tab2 \in Tab2Views(runFile)
    /\ tab2 \notin Tab2Views(firstRead.run.file)

====
